---- MODULE Spec2Model ----
(***************************************************************************)
(* Token resolution of the coding agent: the two OAuth resolvers           *)
(* (gateway/agentcore.py AgentCoreGitHubAuth, auth/github_auth.py          *)
(* GitHubAuth) and the hybrid token selection of tools/github_tools_hybrid.*)
(*                                                                         *)
(* A get_token call is a coroutine: it runs atomically on the event loop   *)
(* up to its await of the identity provider and atomically again from the  *)
(* provider's answer to its return, so a call is two steps and several     *)
(* calls on one instance interleave at the await.                          *)
(***************************************************************************)
EXTENDS Integers, Sequences, FiniteSets, TLC

\* ---------------------------------------------------------------- bounds
NumTasks == 2          \* coroutines that may call get_token on the instance
MaxCalls == 3          \* get_token / wrapper calls begun in one behaviour

MaxMessages == 3       \* add_message calls made in one behaviour
MaxEvents == 2         \* events of one stream before the one that ends it
MaxIssues == 2         \* items of a repository's issue listing
MaxGets == 5           \* get_agent calls of one process
MaxRuns == 3           \* runs of the provider setup routine in one behaviour

Tasks == 1..NumTasks

\* ---------------------------------------------------------------- values
None == "None"                 \* Python's None
Missing == "<missing>"         \* a key a dict does not hold

\* Python truthiness of an Optional[str]: None and "" are falsy.
Truthy(x) == x # None /\ x # ""

\* dict.get(key): None when the key is absent.
DictGet(v) == IF v = Missing THEN None ELSE v

STATIC_TOKEN == "ghp_static"
OAuthTokens == {"gho_A", "gho_B"}
URLS == {"https://auth/1", "https://auth/2"}
EnvValues == {None, "", STATIC_TOKEN}      \* os.getenv("GITHUB_TOKEN")
ProviderErrors == {"provider unavailable"}
Classes == {"AgentCoreGitHubAuth", "GitHubAuth"}
Callbacks == {"none", "ok", "raises"}      \* oauth_url_callback: None, returns, raises
CALLBACK_ERROR == "callback failed"

\* What provider.get_credential can do: raise, or return a dict.
RaisedResult(e) ==
  [raises |-> e, requiresAuthorization |-> FALSE,
   authorizationUrl |-> Missing, accessToken |-> Missing]
AuthorizationResult(u) ==
  [raises |-> None, requiresAuthorization |-> TRUE,
   authorizationUrl |-> u, accessToken |-> Missing]
TokenResult(tok) ==
  [raises |-> None, requiresAuthorization |-> FALSE,
   authorizationUrl |-> Missing, accessToken |-> tok]
ProviderResults ==
  {RaisedResult(e) : e \in ProviderErrors}
    \cup {AuthorizationResult(u) : u \in URLS \cup {Missing}}
    \cup {TokenResult(tok) : tok \in OAuthTokens \cup {Missing}}
NoResult == TokenResult(Missing)           \* placeholder of a call that made no contact

\* Exceptions: a type and the parts of str(e).
NoExc == [type |-> "", msg |-> <<>>]
ValueError(parts) == [type |-> "ValueError", msg |-> parts]
TypeError(parts) == [type |-> "TypeError", msg |-> parts]
KeyError(key) == [type |-> "KeyError", msg |-> <<"'" \o key \o "'">>]

\* ------------------------------------------- hybrid tools: values
\* The operations github_auth_hybrid decorates.
Funcs == {"list_github_repos", "get_repo_info", "create_github_issue",
          "list_github_issues", "create_pull_request"}
AccessTokenArgs == {None, ""} \cup OAuthTokens     \* the caller's access_token
GITHUB_API_ERROR == "GithubException"

\* Optional[SecretStr]: <<>> is None, <<v>> is SecretStr(v).
SecretStr(v) == <<v>>
get_secret_value(s) == s[1]
\* bool() of an Optional[SecretStr]: None is falsy, and so is a SecretStr of
\* length 0 (SecretStr defines __len__).
SecretBool(s) == s # <<>> /\ get_secret_value(s) # ""

\* Settings(): github_token is read from the environment (GITHUB_TOKEN).
Settings(e) ==
  [loaded |-> TRUE, github_token |-> IF e = None THEN <<>> ELSE SecretStr(e)]
NoSettings == [loaded |-> FALSE, github_token |-> <<>>]     \* _settings = None
\* get_settings(): the global instance, created on first use.
get_settings(st, e) == IF st.loaded THEN st ELSE Settings(e)

\* logging's levels, in rising order.
Levels == <<"DEBUG", "INFO", "WARNING", "ERROR", "CRITICAL">>
LevelNo(l) == CHOOSE i \in 1..Len(Levels) : Levels[i] = l
isEnabledFor(lvl, level) == LevelNo(level) >= LevelNo(lvl)
\* logger.info/error("event", key=value) on a logging.Logger: when the level is
\* enabled the keyword reaches Logger._log, which does not take it.
logger_call(lvl, level) ==
  IF isEnabledFor(lvl, level)
  THEN TypeError(<<"Logger._log() got an unexpected keyword argument">>)
  ELSE NoExc

\* repo.get_issues(state=state): the items in the API's order, the n-th
\* having the number n; a pull request is an item whose pull_request is set.
Issue(number, pull_request) == [number |-> number, pull_request |-> pull_request]
Listings ==
  UNION {{[i \in 1..n |-> Issue(i, prs[i])] : prs \in [1..n -> BOOLEAN]}
           : n \in 0..MaxIssues}
IssueLimits == 0..(MaxIssues + 1)
\* listing[:limit] for limit >= 0.
PySliceTo(seq, limit) ==
  SubSeq(seq, 1, IF limit < Len(seq) THEN limit ELSE Len(seq))
\* The loop of list_github_issues: the numbers of the dicts it appends.
RECURSIVE issues_of(_)
issues_of(items) ==
  IF items = <<>> THEN <<>>
  ELSE IF Head(items).pull_request THEN issues_of(Tail(items))
  ELSE <<Head(items).number>> \o issues_of(Tail(items))
list_issues(listing, limit) == issues_of(PySliceTo(listing, limit))

NO_AUTH_MESSAGE ==
  <<"No GitHub authentication available. ", "Either set GITHUB_TOKEN in .env ",
    "or use OAuth flow.">>

\* ------------------------------------------- session store: values
SessionIds == {"s1", "s2"}

\* ChatMessage: the n-th add_message call of a behaviour carries the message n, so
\* that the messages of a store are told apart.
ChatMessage(message, session_id) == [message |-> message, session_id |-> session_id]

\* Optional[int]: <<>> is None, <<k>> is the int k.
NoLimit == <<>>
Limit(k) == <<k>>
Limits == {NoLimit} \cup {Limit(k) : k \in -1..(MaxMessages + 1)}

\* A dict, as the sequence of its items in insertion order.
dict_has(d, k) == \E i \in 1..Len(d) : d[i].key = k
dict_get(d, k, default) ==
  IF dict_has(d, k) THEN d[CHOOSE i \in 1..Len(d) : d[i].key = k].value ELSE default
dict_keys(d) == [i \in 1..Len(d) |-> d[i].key]
dict_set(d, k, v) ==
  IF dict_has(d, k)
  THEN [i \in 1..Len(d) |-> IF d[i].key = k THEN [key |-> k, value |-> v] ELSE d[i]]
  ELSE Append(d, [key |-> k, value |-> v])
dict_del(d, k) == SelectSeq(d, LAMBDA item : item.key # k)

\* seq[i:] of a Python list: a negative i counts from the end, and an i beyond
\* either end is clipped.
PySliceFrom(seq, i) ==
  LET n == Len(seq)
      start == IF i < 0 THEN (IF n + i < 0 THEN 0 ELSE n + i)
               ELSE (IF i > n THEN n ELSE i)
  IN SubSeq(seq, start + 1, n)

\* Variant: the message is put in front of the session's list.
add_message_front(store, message) ==
  dict_set(store, message.session_id,
           <<message>> \o dict_get(store, message.session_id, <<>>))

\* SessionManager.add_message: the session's list is created on first use and
\* the message appended to it.
add_message(store, message) ==
  LET created == IF ~dict_has(store, message.session_id)
                 THEN dict_set(store, message.session_id, <<>>)
                 ELSE store
  IN dict_set(created, message.session_id,
              Append(dict_get(created, message.session_id, <<>>), message))

\* Variant: the lookup inserts the default (dict.setdefault).
get_messages_setdefault(store, session_id, limit) ==
  LET messages == dict_get(store, session_id, <<>>) IN
  [sessions |-> IF dict_has(store, session_id) THEN store
                ELSE dict_set(store, session_id, <<>>),
   result |-> IF limit # NoLimit /\ limit[1] # 0
              THEN PySliceFrom(messages, -limit[1])
              ELSE messages,
   exc |-> NoExc]

\* SessionManager.get_messages: the store as the call leaves it, the list it
\* returns and the exception it raises. `if limit:` is false for None and 0.
get_messages(store, session_id, limit) ==
  LET messages == dict_get(store, session_id, <<>>) IN
  [sessions |-> store,
   result |-> IF limit # NoLimit /\ limit[1] # 0
              THEN PySliceFrom(messages, -limit[1])
              ELSE messages,
   exc |-> NoExc]

\* Variant: the session's list is emptied, its key kept.
clear_session_keep_key(store, session_id) ==
  [sessions |-> IF dict_has(store, session_id)
                THEN dict_set(store, session_id, <<>>) ELSE store,
   exc |-> NoExc]

\* Variant: the whole store is emptied.
clear_session_all(store, session_id) ==
  [sessions |-> IF dict_has(store, session_id) THEN <<>> ELSE store,
   exc |-> NoExc]

\* Variant: del without the membership test; KeyError on an absent session.
clear_session_unguarded(store, session_id) ==
  [sessions |-> dict_del(store, session_id),
   exc |-> IF dict_has(store, session_id) THEN NoExc ELSE KeyError(session_id)]

\* SessionManager.clear_session: the store as the call leaves it, and the
\* exception it raises.
clear_session(store, session_id) ==
  [sessions |-> IF dict_has(store, session_id)
                THEN dict_del(store, session_id) ELSE store,
   exc |-> NoExc]

\* SessionManager.get_active_sessions.
get_active_sessions(store) == dict_keys(store)

NoSessionCall ==
  [op |-> "none", session_id |-> "", limit |-> NoLimit, present |-> FALSE,
   earlier |-> <<>>, result |-> <<>>, exc |-> NoExc]

\* ------------------------------------------- stream handler: values
ErrorTexts == {"boom A", "boom B"}          \* str() of an error
DataTexts == {"Hello"}
ToolNames == {"list_github_repos"}

\* What agent.stream_async does next: it yields an object that is not a dict
\* or a dict, which has or has not each of the keys 'data',
\* 'current_tool_use' and 'error'; it ends; or it raises, `error` then being
\* str() of the exception.
Event(kind, data, current_tool_use, error) ==
  [kind |-> kind, data |-> data, current_tool_use |-> current_tool_use,
   error |-> error]
has(event, key) == event[key] # Missing
DictEvents ==
  {Event("dict", d, n, e) : d \in DataTexts \cup {Missing},
                            n \in ToolNames \cup {Missing},
                            e \in ErrorTexts \cup {Missing}}
\* The dicts on which the loop breaks: 'error' is the first key that matches.
ErrorEvents ==
  {event \in DictEvents : /\ ~has(event, "data")
                          /\ ~has(event, "current_tool_use")
                          /\ has(event, "error")}
PassingEvents ==
  {Event("not_dict", Missing, Missing, Missing)} \cup (DictEvents \ ErrorEvents)
EndingEvents ==
  {Event("stop", Missing, Missing, Missing)}
    \cup ErrorEvents
    \cup {Event("raise", Missing, Missing, e) : e \in ErrorTexts}
Events == PassingEvents \cup EndingEvents

\* Two events that differ at most in the text of an error.
SameButErrorText(a, b) ==
  /\ a.kind = b.kind
  /\ a.data = b.data
  /\ a.current_tool_use = b.current_tool_use
  /\ has(a, "error") <=> has(b, "error")

\* The frames, as the dicts that are serialised.
token_frame(content) == [type |-> "token", body |-> content]
tool_use_frame(tool_name) == [type |-> "tool_use", body |-> tool_name]
error_frame(message) == [type |-> "error", body |-> message]
done_frame == [type |-> "done", body |-> ""]
TerminalTypes == {"error", "done"}

\* stream_agent_response for one step of the agent's iterator: the frames it
\* yields, whether the generator is finished and whether it finished by
\* raising. An error event yields its frame and breaks out of the loop, to
\* the statement after the loop, which yields the done frame; an exception is
\* caught and yields an error frame, after which the generator returns.
continues(yields) == [yields |-> yields, closed |-> FALSE, raises |-> FALSE]
returns(yields) == [yields |-> yields, closed |-> TRUE, raises |-> FALSE]

\* Variants of on_event that the properties must tell from it: one that
\* yields the done frame after the exception's error frame, and one that
\* tests 'error' before the other keys.
on_event_done_after_exception(event) ==
  IF event.kind = "stop" THEN returns(<<done_frame>>)
  ELSE IF event.kind = "raise"
  THEN returns(<<error_frame(event.error), done_frame>>)
  ELSE IF event.kind = "not_dict" THEN continues(<<>>)
  ELSE IF has(event, "data") THEN continues(<<token_frame(event.data)>>)
  ELSE IF has(event, "current_tool_use")
  THEN continues(<<tool_use_frame(event.current_tool_use)>>)
  ELSE IF has(event, "error")
  THEN returns(<<error_frame(event.error), done_frame>>)
  ELSE continues(<<>>)

on_event_error_first(event) ==
  IF event.kind = "stop" THEN returns(<<done_frame>>)
  ELSE IF event.kind = "raise" THEN returns(<<error_frame(event.error)>>)
  ELSE IF event.kind = "not_dict" THEN continues(<<>>)
  ELSE IF has(event, "error")
  THEN returns(<<error_frame(event.error), done_frame>>)
  ELSE IF has(event, "data") THEN continues(<<token_frame(event.data)>>)
  ELSE IF has(event, "current_tool_use")
  THEN continues(<<tool_use_frame(event.current_tool_use)>>)
  ELSE continues(<<>>)

on_event(event) ==
  IF event.kind = "stop" THEN returns(<<done_frame>>)
  ELSE IF event.kind = "raise" THEN returns(<<error_frame(event.error)>>)
  ELSE IF event.kind = "not_dict" THEN continues(<<>>)
  ELSE IF has(event, "data") THEN continues(<<token_frame(event.data)>>)
  ELSE IF has(event, "current_tool_use")
  THEN continues(<<tool_use_frame(event.current_tool_use)>>)
  ELSE IF has(event, "error")
  THEN returns(<<error_frame(event.error), done_frame>>)
  ELSE continues(<<>>)

\* ------------------------------------------- AgentCore runtime: values
\* Optional[Agent]: <<>> is None, <<n>> is the Agent that the n-th call of
\* create_coding_agent made.
NoAgent == <<>>
AgentInstance(n) == <<n>>
\* What create_coding_agent does: it returns an Agent, or BedrockModel(...) or
\* Agent(...) raises.
CreationOutcomes == {"ok", "BedrockModel raises", "Agent raises"}
create_coding_agent(creations, outcome) ==
  IF outcome = "ok"
  THEN [kind |-> "return", value |-> AgentInstance(creations + 1), exc |-> ""]
  ELSE [kind |-> "raise", value |-> NoAgent, exc |-> outcome]

\* A variant of get_agent that the property must tell from it: it creates an
\* agent on every call.
get_agent_always_creates(agent, creations, outcome) ==
  LET made == create_coding_agent(creations, outcome) IN
    [agent |-> IF made.kind = "return" THEN made.value ELSE agent,
     creations |-> creations + 1, created |-> TRUE,
     kind |-> made.kind, value |-> made.value, exc |-> made.exc]

\* get_agent(): the global after the call, the calls of create_coding_agent
\* made so far, and what the call returns or raises. The assignment to the
\* global does not happen when create_coding_agent raises.
get_agent(agent, creations, outcome) ==
  IF agent = NoAgent
  THEN LET made == create_coding_agent(creations, outcome) IN
         [agent |-> IF made.kind = "return" THEN made.value ELSE agent,
          creations |-> creations + 1, created |-> TRUE,
          kind |-> made.kind, value |-> made.value, exc |-> made.exc]
  ELSE [agent |-> agent, creations |-> creations, created |-> FALSE,
        kind |-> "return", value |-> agent, exc |-> ""]

\* ------------------------------------------- configuration: values
\* A keyword argument or an environment variable: <<>> when it is not given,
\* <<"str", v>> a string, <<"int", v>> a number.
NotGiven == <<>>
PyStr(v) == <<"str", v>>
PyInt(v) == <<"int", v>>
Environs ==
  [GITHUB_CLIENT_ID : {NotGiven, PyStr("env_client_id")},
   GITHUB_CLIENT_SECRET : {NotGiven, PyStr("env_client_secret")},
   GITHUB_TOKEN : {NotGiven, PyStr("ghp_env")}]
Kwargs ==
  [github_client_id : {NotGiven, PyStr("test_client_id"), PyInt("42")},
   github_client_secret : {NotGiven, PyStr("test_client_secret"), PyInt("42")},
   aws_region : {NotGiven, PyStr("us-east-1")}]
\* The value a field is validated from: the keyword argument, else the
\* environment variable of its name, else nothing, and the default is used.
field_input(argument, variable) == IF argument # NotGiven THEN argument ELSE variable
\* SecretStr | None = Field(default=None): a string becomes a SecretStr, no
\* input leaves None, anything else is a validation error.
secret_field(input) ==
  IF input = NotGiven THEN [ok |-> TRUE, value |-> <<>>]
  ELSE IF input[1] = "str" THEN [ok |-> TRUE, value |-> SecretStr(input[2])]
  ELSE [ok |-> FALSE, value |-> <<>>]
\* Settings(**kwargs): the instance, or the ValidationError with the fields
\* it names.
BaseSettings_init(kwargs, environ) ==
  LET id == secret_field(field_input(kwargs.github_client_id, environ.GITHUB_CLIENT_ID))
      secret == secret_field(field_input(kwargs.github_client_secret,
                                         environ.GITHUB_CLIENT_SECRET))
      tok == secret_field(field_input(NotGiven, environ.GITHUB_TOKEN))
      errors == (IF id.ok THEN {} ELSE {"github_client_id"})
                  \cup (IF secret.ok THEN {} ELSE {"github_client_secret"})
  IN IF errors # {}
     THEN [kind |-> "raise", errors |-> errors, instance |-> <<>>]
     ELSE [kind |-> "return", errors |-> {},
           instance |-> <<[github_client_id |-> id.value,
                           github_client_secret |-> secret.value,
                           github_token |-> tok.value,
                           aws_region |-> IF kwargs.aws_region = NotGiven
                                          THEN "ap-southeast-2"
                                          ELSE kwargs.aws_region[2]]>>]
NoConstruction ==
  [op |-> "none", kwargs |-> <<>>, kind |-> "none", errors |-> {}, instance |-> <<>>]

\* ------------------------------------------- provider setup: values
github_provider_name == "github-provider"
ProviderNames == {github_provider_name, "google-provider", "slack-provider"}
CallbackUrls == {"https://bedrock-agentcore/identity/oauth2/callback"}
PROVIDER_ARN == "arn:aws:bedrock-agentcore:provider/github-provider"

\* The control plane of the identity service over the set of provider names it
\* holds: the listing, and delete and create with their errors.
list_oauth2_credential_providers(held) ==
  [credentialProviders |-> held]
delete_oauth2_credential_provider(held, name) ==
  IF name \in held
  THEN [held |-> held \ {name}, error |-> None]
  ELSE [held |-> held, error |-> "ResourceNotFoundException"]
create_oauth2_credential_provider(held, name) ==
  IF name \in held
  THEN [held |-> held, error |-> "ConflictException", credentialProviderArn |-> Missing]
  ELSE [held |-> held \cup {name}, error |-> None,
        credentialProviderArn |-> PROVIDER_ARN]

ApiCall(call, error) == [call |-> call, error |-> error]

\* Variant: nothing is ever found, so nothing is deleted.
existing_none(listing, name) == {}

\* The providers of the listing that carry the configured name.
existing(listing, name) == {p \in listing.credentialProviders : p = name}

\* settings.github_client_id and settings.github_client_secret, each an
\* Optional[SecretStr] that is None unless the environment gives it.
ClientConfigs ==
  [github_client_id : {<<>>, SecretStr("Iv1.client")},
   github_client_secret : {<<>>, SecretStr("client-secret")}]
Configured == [github_client_id |-> SecretStr("Iv1.client"),
               github_client_secret |-> SecretStr("client-secret")]

\* The arguments of the create call: .get_secret_value() on a field that is
\* None is an AttributeError, raised before the call is made.
create_arguments(config) ==
  IF config.github_client_id = <<>> \/ config.github_client_secret = <<>>
  THEN [error |-> "AttributeError", clientId |-> None, clientSecret |-> None]
  ELSE [error |-> None,
        clientId |-> get_secret_value(config.github_client_id),
        clientSecret |-> get_secret_value(config.github_client_secret)]

\* The items of the create response that the routine's return value carries:
\* it returns provider_arn.
RETURNED_ITEMS == {"credentialProviderArn"}

NoRun == [op |-> "none", kind |-> "none", value |-> None, error |-> None,
          callback_url |-> None, payload |-> {}]

VARIABLES
  cls,                 \* the class of the resolver instance
  oauth_url_callback,  \* how the instance's notifier behaves
  CredentialProvider,  \* agentcore.py's import: TRUE the toolkit class, FALSE the name is None
  env,                 \* the process environment's GITHUB_TOKEN
  token,               \* self._token
  pending_oauth_url,   \* self._pending_oauth_url
  task,                \* per coroutine: where its get_token call stands
  calls,               \* calls begun so far
  cycle_notifications, \* notifier invocations of the current authorization cycle
  ret,                 \* the call that finished last: its outcome and the fields around it
  settings,            \* config._settings, the lazily created Settings
  log_level,           \* effective level of the tools module's logging.Logger
  wret,                \* the decorated call that finished last
  sessions,            \* SessionManager._sessions, a dict in insertion order
  appended,            \* per session id: the messages appended since its last clear
  adds,                \* add_message calls made so far
  last_read,           \* per session id: the last unlimited read since its last clear
  sret,                \* the SessionManager call that finished last
  events,              \* what agent.stream_async has yielded so far
  twin_events,         \* the same run with other error texts
  frames,              \* the frames stream_agent_response has yielded so far
  twin_frames,         \* the frames of the twin run
  stream_pc,           \* the generator: "running", "closed" or "raised"
  providers,           \* identity service: providers named github_provider_name
  setup_pc,            \* create_github_oauth_provider: where the run stands
  api_calls,           \* the control-plane calls the run has issued
  setup_runs,          \* runs of the routine begun so far
  setup_ret,           \* how the last finished run ended
  client_config,       \* settings.github_client_id, settings.github_client_secret
  agent,               \* runtime._agent
  creations,           \* calls of create_coding_agent made so far
  get_log,             \* the get_agent calls so far: what each did
  environ,             \* the environment and .env file that Settings reads
  settings_ret         \* the construction of Settings that finished last

hybridVars == <<settings, log_level, wret>>
sessionVars == <<sessions, appended, adds, last_read, sret>>
streamVars == <<events, twin_events, frames, twin_frames, stream_pc>>
setupVars == <<providers, setup_pc, api_calls, setup_runs, setup_ret, client_config>>
runtimeVars == <<agent, creations, get_log>>
configVars == <<environ, settings_ret>>
serviceVars == <<sessionVars, streamVars, setupVars, runtimeVars, configVars>>
vars == <<cls, oauth_url_callback, CredentialProvider, env, token, pending_oauth_url,
          task, calls, cycle_notifications, ret, settings, log_level, wret,
          sessions, appended, adds, last_read, sret,
          events, twin_events, frames, twin_frames, stream_pc,
          providers, setup_pc, api_calls, setup_runs, setup_ret, client_config,
          agent, creations, get_log, environ, settings_ret>>

\* The session store, the stream and the setup routine before their first use.
SessionIdle ==
  /\ sessions = <<>>
  /\ appended = [s \in SessionIds |-> <<>>]
  /\ adds = 0
  /\ last_read = [s \in SessionIds |-> <<>>]
  /\ sret = NoSessionCall
StreamIdle ==
  /\ events = <<>>
  /\ twin_events = <<>>
  /\ frames = <<>>
  /\ twin_frames = <<>>
  /\ stream_pc = "running"
SetupIdle ==
  /\ providers = {}
  /\ setup_pc = "idle"
  /\ api_calls = <<>>
  /\ setup_runs = 0
  /\ setup_ret = NoRun
  /\ client_config = Configured

\* The runtime module after import, and the configuration with nothing in
\* the environment and no Settings constructed.
RuntimeIdle ==
  /\ agent = NoAgent
  /\ creations = 0
  /\ get_log = <<>>
ConfigIdle ==
  /\ environ = [GITHUB_CLIENT_ID |-> NotGiven, GITHUB_CLIENT_SECRET |-> NotGiven,
                GITHUB_TOKEN |-> NotGiven]
  /\ settings_ret = NoConstruction

\* begin_pending: for a call of AgentCoreGitHubAuth, whether an authorization
\* was pending when it passed the cache check.
Idle ==
  [pc |-> "idle", contacts |-> 0, notified |-> <<>>, url |-> Missing,
   begin_pending |-> FALSE]

NoWrapperCall ==
  [op |-> "none", func |-> "", access_token |-> None, github_token |-> <<>>,
   kind |-> "none", value |-> None, exc |-> NoExc, invoked |-> 0, passed |-> None,
   api_fails |-> FALSE, listing |-> <<>>, limit |-> 0, issues |-> <<>>]

NoCall ==
  [op |-> "none", kind |-> "none", value |-> None, exc |-> NoExc,
   contacts |-> 0, notified |-> <<>>, result |-> NoResult,
   pre_env |-> None, pre_token |-> None, pre_pending |-> None,
   post_token |-> None, post_pending |-> None, begin_pending |-> FALSE]

\* The record of a get_token call that ends in this step.
Finished(kind, value, exc, contacts, notified, result, tok2, pend2) ==
  [op |-> "get_token", kind |-> kind, value |-> value, exc |-> exc,
   contacts |-> contacts, notified |-> notified, result |-> result,
   pre_env |-> env, pre_token |-> token, pre_pending |-> pending_oauth_url,
   post_token |-> tok2, post_pending |-> pend2,
   begin_pending |-> cls = "AgentCoreGitHubAuth" /\ pending_oauth_url # None]

\* Notifier invocations of the current authorization cycle: the count restarts
\* when a credential is obtained.
CycleAfter(tok2, notified) ==
  IF Truthy(tok2) THEN 0 ELSE cycle_notifications + Len(notified)

Init ==
  /\ cls \in Classes
  /\ oauth_url_callback \in Callbacks
  /\ CredentialProvider \in (IF cls = "AgentCoreGitHubAuth" THEN BOOLEAN ELSE {TRUE})
  /\ env \in EnvValues
  /\ token = None
  /\ pending_oauth_url = None
  /\ task = [t \in Tasks |-> Idle]
  /\ calls = 0
  /\ cycle_notifications = 0
  /\ ret = NoCall
  /\ settings = NoSettings
  /\ log_level = "WARNING"
  /\ wret = NoWrapperCall
  /\ SessionIdle /\ StreamIdle /\ RuntimeIdle /\ ConfigIdle /\ SetupIdle

\* The environment variable is set, emptied or removed between calls. Its
\* readers are AgentCoreGitHubAuth.get_token and Settings(); GitHubAuth never
\* reads it, so for a GitHubAuth instance it stays what the process began with.
SetEnv(v) ==
  /\ cls = "AgentCoreGitHubAuth"
  /\ v \in EnvValues
  /\ v # env
  /\ env' = v
  /\ UNCHANGED <<cls, oauth_url_callback, CredentialProvider, token, pending_oauth_url,
                 task, calls, cycle_notifications, ret, hybridVars, serviceVars>>

\* ------------------------------------------------ AgentCoreGitHubAuth
\* is_authenticated: a token is cached or GITHUB_TOKEN is in the environment,
\* both tested against None.
AgentCore_is_authenticated(e, tok) == tok # None \/ e # None

\* get_token from provider.get_credential's answer to the end of the call:
\* the new fields, the notifier invocations and the call's outcome.
\* The provider call raised: except Exception wraps it.
provider_raised(result, tok, pend) ==
  [token |-> tok, pending |-> pend, notified |-> <<>>, kind |-> "raise",
   value |-> None,
   exc |-> ValueError(<<"Authentication failed: ", result.raises>>)]

\* Variant: the notifier is called only on the transition into "authorization
\* required", not when an authorization is pending already.
authorization_required_once(result, callback, tok, pend) ==
  IF result.authorizationUrl = Missing
  THEN [token |-> tok, pending |-> pend, notified |-> <<>>, kind |-> "raise",
        value |-> None,
        exc |-> ValueError(<<"Authentication failed: ">>
                             \o KeyError("authorizationUrl").msg)]
  ELSE LET oauth_url == result.authorizationUrl IN
       [token |-> tok, pending |-> oauth_url,
        notified |-> IF callback # "none" /\ pend = None
                     THEN <<oauth_url>> ELSE <<>>,
        kind |-> "raise", value |-> None,
        exc |-> IF callback = "raises" /\ pend = None
                THEN ValueError(<<"Authentication failed: ", CALLBACK_ERROR>>)
                ELSE ValueError(<<"Authentication failed: ",
                                  "User authorization required: ", oauth_url>>)]

\* The answer has requiresAuthorization. result["authorizationUrl"] is a
\* KeyError on an answer without the key; the URL is stored, the callback (if
\* any) is called, and the ValueError raised next, like an exception of the
\* callback, is caught by the method's own except Exception and wrapped.
authorization_required(result, callback, tok, pend) ==
  IF result.authorizationUrl = Missing
  THEN [token |-> tok, pending |-> pend, notified |-> <<>>, kind |-> "raise",
        value |-> None,
        exc |-> ValueError(<<"Authentication failed: ">>
                             \o KeyError("authorizationUrl").msg)]
  ELSE LET oauth_url == result.authorizationUrl IN
       [token |-> tok, pending |-> oauth_url,
        notified |-> IF callback # "none" THEN <<oauth_url>> ELSE <<>>,
        kind |-> "raise", value |-> None,
        exc |-> IF callback = "raises"
                THEN ValueError(<<"Authentication failed: ", CALLBACK_ERROR>>)
                ELSE ValueError(<<"Authentication failed: ",
                                  "User authorization required: ", oauth_url>>)]

\* Any other answer: its accessToken (None when absent) is cached and returned.
token_returned(result, pend) ==
  [token |-> DictGet(result.accessToken), pending |-> pend, notified |-> <<>>,
   kind |-> "return", value |-> DictGet(result.accessToken), exc |-> NoExc]

\* Variant: the wrapped error does not carry the cause.
get_token_after_provider_no_cause(result, callback, tok, pend) ==
  IF result.raises # None
  THEN [provider_raised(result, tok, pend) EXCEPT
          !.exc = ValueError(<<"Authentication failed: ">>)]
  ELSE IF result.requiresAuthorization
  THEN authorization_required(result, callback, tok, pend)
  ELSE token_returned(result, pend)

\* Variant: the error handler forgets the pending authorization.
get_token_after_provider_reset(result, callback, tok, pend) ==
  IF result.raises # None
  THEN [provider_raised(result, tok, pend) EXCEPT !.pending = None]
  ELSE IF result.requiresAuthorization
  THEN authorization_required(result, callback, tok, pend)
  ELSE token_returned(result, pend)

get_token_after_provider(result, callback, tok, pend) ==
  IF result.raises # None
  THEN provider_raised(result, tok, pend)
  ELSE IF result.requiresAuthorization
  THEN authorization_required(result, callback, tok, pend)
  ELSE token_returned(result, pend)

\* Variant: the cached token is consulted before the static one.
get_token_cache_first(e, tok, have_provider) ==
  IF Truthy(tok)
  THEN [await |-> FALSE, kind |-> "return", value |-> tok, exc |-> NoExc]
  ELSE IF Truthy(e)
  THEN [await |-> FALSE, kind |-> "return", value |-> e, exc |-> NoExc]
  ELSE IF ~have_provider
  THEN [await |-> FALSE, kind |-> "raise", value |-> None,
        exc |-> TypeError(<<"'NoneType' object is not callable">>)]
  ELSE [await |-> TRUE, kind |-> "none", value |-> None, exc |-> NoExc]

\* Variant: the cached token is not consulted.
get_token_skip_cache(e, tok, have_provider) ==
  IF Truthy(e)
  THEN [await |-> FALSE, kind |-> "return", value |-> e, exc |-> NoExc]
  ELSE IF ~have_provider
  THEN [await |-> FALSE, kind |-> "raise", value |-> None,
        exc |-> TypeError(<<"'NoneType' object is not callable">>)]
  ELSE [await |-> TRUE, kind |-> "none", value |-> None, exc |-> NoExc]

\* get_token before the provider is asked: the static token, then the cached
\* token; with neither, CredentialProvider(name=...) is built (a TypeError when
\* the toolkit import failed and the name is None) and the call awaits it.
get_token_before_provider(e, tok, have_provider) ==
  IF Truthy(e)
  THEN [await |-> FALSE, kind |-> "return", value |-> e, exc |-> NoExc]
  ELSE IF Truthy(tok)
  THEN [await |-> FALSE, kind |-> "return", value |-> tok, exc |-> NoExc]
  ELSE IF ~have_provider
  THEN [await |-> FALSE, kind |-> "raise", value |-> None,
        exc |-> TypeError(<<"'NoneType' object is not callable">>)]
  ELSE [await |-> TRUE, kind |-> "none", value |-> None, exc |-> NoExc]

\* get_token up to its await.
AgentCore_get_token(t) ==
  /\ cls = "AgentCoreGitHubAuth"
  /\ task[t].pc = "idle"
  /\ calls < MaxCalls
  /\ calls' = calls + 1
  /\ LET out == get_token_before_provider(env, token, CredentialProvider) IN
       IF out.await
       THEN /\ task' = [task EXCEPT ![t] =
                               [Idle EXCEPT !.pc = "awaiting", !.contacts = 1,
                                            !.begin_pending = pending_oauth_url # None]]
            /\ UNCHANGED ret
       ELSE /\ ret' = Finished(out.kind, out.value, out.exc, 0, <<>>, NoResult,
                               token, pending_oauth_url)
            /\ UNCHANGED task
  /\ UNCHANGED <<cls, oauth_url_callback, CredentialProvider, env, token,
                 pending_oauth_url, cycle_notifications, hybridVars, serviceVars>>

\* asyncio.to_thread(provider.get_credential) completes with `result`.
AgentCore_get_token_resume(t, result) ==
  /\ cls = "AgentCoreGitHubAuth"
  /\ task[t].pc = "awaiting"
  /\ result \in ProviderResults
  /\ LET out == get_token_after_provider(result, oauth_url_callback, token,
                                         pending_oauth_url) IN
       /\ token' = out.token
       /\ pending_oauth_url' = out.pending
       /\ cycle_notifications' = CycleAfter(out.token, out.notified)
       /\ ret' = [Finished(out.kind, out.value, out.exc, task[t].contacts,
                           out.notified, result, out.token, out.pending)
                    EXCEPT !.begin_pending = task[t].begin_pending]
  /\ task' = [task EXCEPT ![t] = Idle]
  /\ UNCHANGED <<cls, oauth_url_callback, CredentialProvider, env, calls, hybridVars,
                 serviceVars>>

\* ------------------------------------------------------------ GitHubAuth
GitHubAuth_is_authenticated(tok) == tok # None

\* What the requires_access_token wrapper of the identity SDK did for a call.
SdkResult(t, raised, tok) ==
  [raises |-> raised, requiresAuthorization |-> task[t].url # Missing,
   authorizationUrl |-> task[t].url, accessToken |-> tok]

\* The notifier as _on_auth_url runs it: an exception of the callback is
\* logged and swallowed.
on_auth_url_notified(callback, url) ==
  IF callback # "none" THEN <<url>> ELSE <<>>

\* get_token up to its await of the decorated _get_token.
GitHubAuth_get_token(t) ==
  /\ cls = "GitHubAuth"
  /\ task[t].pc = "idle"
  /\ calls < MaxCalls
  /\ calls' = calls + 1
  /\ IF Truthy(token)
     THEN /\ ret' = Finished("return", token, NoExc, 0, <<>>, NoResult,
                             token, pending_oauth_url)
          /\ UNCHANGED task
     ELSE /\ task' = [task EXCEPT ![t] =
                             [Idle EXCEPT !.pc = "sdk", !.contacts = 1]]
          /\ UNCHANGED ret
  /\ UNCHANGED <<cls, oauth_url_callback, CredentialProvider, env, token,
                 pending_oauth_url, cycle_notifications, hybridVars, serviceVars>>

\* The SDK has an authorization URL and hands it to on_auth_url.
GitHubAuth_on_auth_url(t, url) ==
  /\ cls = "GitHubAuth"
  /\ task[t].pc = "sdk"
  /\ url \in URLS
  /\ pending_oauth_url' = url
  /\ LET notified == on_auth_url_notified(oauth_url_callback, url) IN
       /\ task' = [task EXCEPT ![t].pc = "polling", ![t].url = url,
                                ![t].notified = @ \o notified]
       /\ cycle_notifications' = CycleAfter(token, notified)
  /\ UNCHANGED <<cls, oauth_url_callback, CredentialProvider, env, token, calls, ret,
                 hybridVars, serviceVars>>

\* The SDK has the token and calls the inner _get_token with it; get_token
\* then returns self._token.
GitHubAuth_inner_get_token(t, access_token) ==
  /\ cls = "GitHubAuth"
  /\ task[t].pc \in {"sdk", "polling"}
  /\ access_token \in OAuthTokens
  /\ token' = access_token
  /\ cycle_notifications' = CycleAfter(access_token, <<>>)
  /\ ret' = Finished("return", access_token, NoExc, task[t].contacts,
                     task[t].notified, SdkResult(t, None, access_token),
                     access_token, pending_oauth_url)
  /\ task' = [task EXCEPT ![t] = Idle]
  /\ UNCHANGED <<cls, oauth_url_callback, CredentialProvider, env,
                 pending_oauth_url, calls, hybridVars, serviceVars>>

\* The SDK raises (provider error, polling timed out): logged and wrapped.
GitHubAuth_get_token_except(t, e) ==
  /\ cls = "GitHubAuth"
  /\ task[t].pc \in {"sdk", "polling"}
  /\ e \in ProviderErrors
  /\ ret' = Finished("raise", None,
                     ValueError(<<"GitHub authentication failed: ", e>>),
                     task[t].contacts, task[t].notified, SdkResult(t, e, Missing),
                     token, pending_oauth_url)
  /\ task' = [task EXCEPT ![t] = Idle]
  /\ UNCHANGED <<cls, oauth_url_callback, CredentialProvider, env, token,
                 pending_oauth_url, calls, cycle_notifications, hybridVars,
                 serviceVars>>

\* ------------------------------------------------- github_auth_hybrid
\* The decorated operation's body: it logs, calls the code-host API, logs the
\* result or logs and re-raises the API's error.
github_operation(lvl, api_fails) ==
  IF logger_call(lvl, "INFO") # NoExc
  THEN [kind |-> "raise", value |-> None, exc |-> logger_call(lvl, "INFO")]
  ELSE IF api_fails
  THEN [kind |-> "raise", value |-> None,
        exc |-> IF logger_call(lvl, "ERROR") # NoExc
                THEN logger_call(lvl, "ERROR")
                ELSE [type |-> GITHUB_API_ERROR, msg |-> <<>>]]
  ELSE [kind |-> "return", value |-> "data", exc |-> NoExc]

\* The wrapper's choice of token: the token to call the operation with, or the
\* exception that ends the call before the operation is reached.
wrapper_token(lvl, github_token, access_token) ==
  IF SecretBool(github_token)
  THEN IF logger_call(lvl, "INFO") # NoExc
       THEN [call |-> FALSE, token |-> None, exc |-> logger_call(lvl, "INFO")]
       ELSE [call |-> TRUE, token |-> get_secret_value(github_token), exc |-> NoExc]
  ELSE IF Truthy(access_token)
  THEN IF logger_call(lvl, "INFO") # NoExc
       THEN [call |-> FALSE, token |-> None, exc |-> logger_call(lvl, "INFO")]
       ELSE [call |-> TRUE, token |-> access_token, exc |-> NoExc]
  ELSE IF logger_call(lvl, "ERROR") # NoExc
       THEN [call |-> FALSE, token |-> None, exc |-> logger_call(lvl, "ERROR")]
       ELSE [call |-> FALSE, token |-> None, exc |-> ValueError(NO_AUTH_MESSAGE)]

\* One call of a decorated operation `func` with the caller's access_token;
\* `listing` is what the repository's issue listing holds and `limit` the
\* caller's limit, which list_github_issues reads.
wrapper(func, access_token, api_fails, listing, limit) ==
  /\ func \in Funcs
  /\ access_token \in AccessTokenArgs
  /\ api_fails \in BOOLEAN
  /\ listing \in Listings /\ limit \in IssueLimits
  /\ calls < MaxCalls
  /\ calls' = calls + 1
  /\ settings' = get_settings(settings, env)
  /\ LET sel == wrapper_token(log_level, settings'.github_token, access_token)
         out == github_operation(log_level, api_fails)
     IN wret' = [op |-> "wrapper", func |-> func, access_token |-> access_token,
                 github_token |-> settings'.github_token,
                 kind |-> IF sel.call THEN out.kind ELSE "raise",
                 value |-> IF sel.call THEN out.value ELSE None,
                 exc |-> IF sel.call THEN out.exc ELSE sel.exc,
                 invoked |-> IF sel.call THEN 1 ELSE 0,
                 passed |-> sel.token,
                 api_fails |-> api_fails, listing |-> listing, limit |-> limit,
                 issues |-> IF /\ func = "list_github_issues"
                               /\ sel.call /\ out.kind = "return"
                            THEN list_issues(listing, limit) ELSE <<>>]
  /\ UNCHANGED <<cls, oauth_url_callback, CredentialProvider, env, token,
                 pending_oauth_url, task, cycle_notifications, ret, log_level,
                 serviceVars>>

\* ------------------------------------------------------ SessionManager
\* The auth, tool, stream and setup variables, which the store leaves alone.
notSessionVars ==
  <<cls, oauth_url_callback, CredentialProvider, env, token, pending_oauth_url,
    task, calls, cycle_notifications, ret, hybridVars, streamVars, setupVars,
    runtimeVars, configVars>>

\* The record of a call: `present`, whether the session was in the store when
\* the call was made, and `earlier`, what the unlimited read before it returned.
SessionCall(op, session_id, limit, result, exc) ==
  [op |-> op, session_id |-> session_id, limit |-> limit,
   present |-> dict_has(sessions, session_id),
   earlier |-> IF session_id \in SessionIds THEN last_read[session_id] ELSE <<>>,
   result |-> result, exc |-> exc]

\* add_message(ChatMessage(session_id=session_id, ...)). The method has no
\* await, so it is one step whichever request calls it.
SessionManager_add_message(session_id) ==
  /\ session_id \in SessionIds
  /\ adds < MaxMessages
  /\ LET message == ChatMessage(adds + 1, session_id) IN
       /\ sessions' = add_message(sessions, message)
       /\ appended' = [appended EXCEPT ![session_id] = Append(@, message)]
  /\ adds' = adds + 1
  /\ sret' = SessionCall("add_message", session_id, NoLimit, <<>>, NoExc)
  /\ UNCHANGED <<last_read, notSessionVars>>

SessionManager_get_messages(session_id, limit) ==
  /\ session_id \in SessionIds
  /\ limit \in Limits
  /\ LET out == get_messages(sessions, session_id, limit) IN
       /\ sessions' = out.sessions
       /\ sret' = SessionCall("get_messages", session_id, limit, out.result, out.exc)
       /\ last_read' = IF limit = NoLimit /\ out.exc = NoExc
                       THEN [last_read EXCEPT ![session_id] = out.result]
                       ELSE last_read
  /\ UNCHANGED <<appended, adds, notSessionVars>>

SessionManager_clear_session(session_id) ==
  /\ session_id \in SessionIds
  /\ LET out == clear_session(sessions, session_id) IN
       /\ sessions' = out.sessions
       /\ sret' = SessionCall("clear_session", session_id, NoLimit, <<>>, out.exc)
  /\ appended' = [appended EXCEPT ![session_id] = <<>>]
  /\ last_read' = [last_read EXCEPT ![session_id] = <<>>]
  /\ UNCHANGED <<adds, notSessionVars>>

SessionManager_get_active_sessions ==
  /\ sret' = SessionCall("get_active_sessions", "", NoLimit,
                         get_active_sessions(sessions), NoExc)
  /\ UNCHANGED <<sessions, appended, adds, last_read, notSessionVars>>

\* ----------------------------------------------- stream_agent_response
notStreamVars ==
  <<cls, oauth_url_callback, CredentialProvider, env, token, pending_oauth_url,
    task, calls, cycle_notifications, ret, hybridVars, sessionVars, setupVars,
    runtimeVars, configVars>>

\* The generator is resumed and the agent's iterator does `event`; in the twin
\* run it does `twin`, the same but for the text of an error.
stream_agent_response(event, twin) ==
  /\ stream_pc = "running"
  /\ event \in Events /\ twin \in Events
  /\ SameButErrorText(event, twin)
  /\ event \in PassingEvents => Len(events) < MaxEvents
  /\ events' = Append(events, event)
  /\ twin_events' = Append(twin_events, twin)
  /\ frames' = frames \o on_event(event).yields
  /\ twin_frames' = twin_frames \o on_event(twin).yields
  /\ stream_pc' = IF on_event(event).raises THEN "raised"
                  ELSE IF on_event(event).closed THEN "closed"
                  ELSE "running"
  /\ UNCHANGED notStreamVars

\* ------------------------------------------------- runtime.get_agent
notRuntimeVars ==
  <<cls, oauth_url_callback, CredentialProvider, env, token, pending_oauth_url,
    task, calls, cycle_notifications, ret, hybridVars, sessionVars, streamVars,
    setupVars, configVars>>

\* One call of get_agent(); create_coding_agent, if it is called, does
\* `outcome`.
Runtime_get_agent(outcome) ==
  /\ outcome \in CreationOutcomes
  /\ Len(get_log) < MaxGets
  /\ LET out == get_agent(agent, creations, outcome) IN
       /\ agent' = out.agent
       /\ creations' = out.creations
       /\ get_log' = Append(get_log, [kind |-> out.kind, value |-> out.value,
                                      exc |-> out.exc, created |-> out.created,
                                      agent_after |-> out.agent])
  /\ UNCHANGED notRuntimeVars

\* ------------------------------------------------------------ Settings
notConfigVars ==
  <<cls, oauth_url_callback, CredentialProvider, env, token, pending_oauth_url,
    task, calls, cycle_notifications, ret, hybridVars, sessionVars, streamVars,
    setupVars, runtimeVars>>

\* Settings(**kwargs) in the current environment.
Settings_construct(kwargs) ==
  /\ kwargs \in Kwargs
  /\ LET out == BaseSettings_init(kwargs, environ) IN
       settings_ret' = [op |-> "Settings", kwargs |-> kwargs, kind |-> out.kind,
                        errors |-> out.errors, instance |-> out.instance]
  /\ UNCHANGED <<environ, notConfigVars>>

\* ---------------------------------------- create_github_oauth_provider
notSetupVars ==
  <<cls, oauth_url_callback, CredentialProvider, env, token, pending_oauth_url,
    task, calls, cycle_notifications, ret, hybridVars, sessionVars, streamVars,
    runtimeVars, configVars>>

\* The routine is started: it lists the providers and looks for its own.
setup_list ==
  /\ setup_pc = "idle"
  /\ setup_runs < MaxRuns
  /\ setup_runs' = setup_runs + 1
  /\ api_calls' = <<ApiCall("list", None)>>
  /\ LET providers_listed == list_oauth2_credential_providers(providers) IN
       setup_pc' = IF existing(providers_listed, github_provider_name) # {}
                   THEN "delete" ELSE "create"
  /\ UNCHANGED <<providers, setup_ret, client_config, notSetupVars>>

\* It deletes the provider it found and waits; an exception of the call is
\* logged and the routine goes on to create.
setup_delete ==
  /\ setup_pc = "delete"
  /\ LET out == delete_oauth2_credential_provider(providers, github_provider_name) IN
       /\ providers' = out.held
       /\ api_calls' = Append(api_calls, ApiCall("delete", out.error))
  /\ setup_pc' = "create"
  /\ UNCHANGED <<setup_runs, setup_ret, client_config, notSetupVars>>

\* It creates the provider: the ARN is returned, or the exception of the
\* arguments or of the call leaves the routine. The response may come without
\* a callbackUrl, which is then shown as 'N/A'.
setup_create(callbackUrl) ==
  /\ setup_pc = "create"
  /\ callbackUrl \in CallbackUrls \cup {Missing}
  /\ LET arguments == create_arguments(client_config)
         out == create_oauth2_credential_provider(providers, github_provider_name)
         error == IF arguments.error # None THEN arguments.error ELSE out.error
     IN
       /\ providers' = IF arguments.error # None THEN providers ELSE out.held
       /\ api_calls' = IF arguments.error # None THEN api_calls
                       ELSE Append(api_calls, ApiCall("create", out.error))
       /\ setup_ret' =
            [op |-> "create_github_oauth_provider",
             kind |-> IF error = None THEN "return" ELSE "raise",
             value |-> IF error = None THEN out.credentialProviderArn ELSE None,
             error |-> error,
             callback_url |-> IF error # None THEN None
                              ELSE IF callbackUrl = Missing THEN "N/A"
                              ELSE callbackUrl,
             payload |-> IF error = None THEN RETURNED_ITEMS ELSE {}]
  /\ setup_pc' = "idle"
  /\ UNCHANGED <<setup_runs, client_config, notSetupVars>>

\* Between the routine's listing and its delete call someone else deletes the
\* provider: the delete call will find nothing.
ProviderVanishes ==
  /\ setup_pc = "delete"
  /\ github_provider_name \in providers
  /\ providers' = providers \ {github_provider_name}
  /\ UNCHANGED <<setup_pc, api_calls, setup_runs, setup_ret, client_config,
                 notSetupVars>>

\* ------------------------------------------------------- specifications
BeginCall(t) ==
  \/ AgentCore_get_token(t)
  \/ GitHubAuth_get_token(t)

ContinueCall(t) ==
  \/ \E r \in ProviderResults : AgentCore_get_token_resume(t, r)
  \/ \E u \in URLS : GitHubAuth_on_auth_url(t, u)
  \/ \E tok \in OAuthTokens : GitHubAuth_inner_get_token(t, tok)
  \/ \E e \in ProviderErrors : GitHubAuth_get_token_except(t, e)

NoCallInFlight == \A t \in Tasks : task[t].pc = "idle"

\* Calls on the instance interleave freely at their awaits.
Next ==
  \/ \E v \in EnvValues : SetEnv(v)
  \/ \E t \in Tasks : BeginCall(t)
  \/ \E t \in Tasks : ContinueCall(t)

Spec == Init /\ [][Next]_vars

\* One call at a time: a call begins only when none is in flight.
SeqNext ==
  \/ \E v \in EnvValues : SetEnv(v)
  \/ \E t \in Tasks : NoCallInFlight /\ BeginCall(t)
  \/ \E t \in Tasks : ContinueCall(t)

SeqSpec == Init /\ [][SeqNext]_vars
\* The decorated tools of one process: the logger's level is whatever the
\* process configured, the settings are created by the first call.
HybridInit ==
  /\ cls = "AgentCoreGitHubAuth"
  /\ oauth_url_callback = "none"
  /\ CredentialProvider = TRUE
  /\ env \in EnvValues
  /\ token = None
  /\ pending_oauth_url = None
  /\ task = [t \in Tasks |-> Idle]
  /\ calls = 0
  /\ cycle_notifications = 0
  /\ ret = NoCall
  /\ settings = NoSettings
  /\ log_level \in {Levels[i] : i \in 1..Len(Levels)}
  /\ wret = NoWrapperCall
  /\ SessionIdle /\ StreamIdle /\ RuntimeIdle /\ ConfigIdle /\ SetupIdle

HybridNext ==
  \/ \E v \in EnvValues : SetEnv(v)
  \/ \E f \in Funcs, a \in AccessTokenArgs, fails \in BOOLEAN :
       wrapper(f, a, fails, <<>>, 0)

HybridSpec == HybridInit /\ [][HybridNext]_vars
\* list_github_issues called once in a process, whatever the environment,
\* the logger's level, the listing of the repository and the caller's limit.
IssuesNext ==
  \E a \in AccessTokenArgs, fails \in BOOLEAN,
     listing \in Listings, limit \in IssueLimits :
    /\ wret = NoWrapperCall
    /\ wrapper("list_github_issues", a, fails, listing, limit)

IssuesSpec == HybridInit /\ [][IssuesNext]_vars
\* The resolver and the tools before their first use.
AuthIdle ==
  /\ cls = "AgentCoreGitHubAuth"
  /\ oauth_url_callback = "none"
  /\ CredentialProvider = TRUE
  /\ env = None
  /\ token = None
  /\ pending_oauth_url = None
  /\ task = [t \in Tasks |-> Idle]
  /\ calls = 0
  /\ cycle_notifications = 0
  /\ ret = NoCall
  /\ settings = NoSettings
  /\ log_level = "WARNING"
  /\ wret = NoWrapperCall

\* One SessionManager, called by the requests of the process in any order.
SessionInit == AuthIdle /\ SessionIdle /\ StreamIdle /\ RuntimeIdle /\ ConfigIdle /\ SetupIdle

SessionNext ==
  \/ \E s \in SessionIds : SessionManager_add_message(s)
  \/ \E s \in SessionIds, k \in Limits : SessionManager_get_messages(s, k)
  \/ \E s \in SessionIds : SessionManager_clear_session(s)
  \/ SessionManager_get_active_sessions

SessionSpec == SessionInit /\ [][SessionNext]_vars
\* One stream, from the first resumption of the generator to its end.
StreamInit == AuthIdle /\ SessionIdle /\ StreamIdle /\ RuntimeIdle /\ ConfigIdle /\ SetupIdle

StreamNext == \E event \in Events, twin \in Events : stream_agent_response(event, twin)

StreamSpec == StreamInit /\ [][StreamNext]_vars

\* The setup routine, run again and again against an identity service that
\* holds any set of providers to begin with.
SetupInit ==
  /\ AuthIdle /\ SessionIdle /\ StreamIdle /\ RuntimeIdle /\ ConfigIdle
  /\ providers \in SUBSET ProviderNames
  /\ setup_pc = "idle"
  /\ api_calls = <<>>
  /\ setup_runs = 0
  /\ setup_ret = NoRun
  /\ client_config \in ClientConfigs

SetupNext ==
  \/ setup_list
  \/ setup_delete
  \/ \E u \in CallbackUrls \cup {Missing} : setup_create(u)
  \/ ProviderVanishes

SetupSpec == SetupInit /\ [][SetupNext]_vars
\* The get_agent calls of one runtime process.
RuntimeInit == AuthIdle /\ SessionIdle /\ StreamIdle /\ SetupIdle /\ ConfigIdle /\ RuntimeIdle

RuntimeNext == \E outcome \in CreationOutcomes : Runtime_get_agent(outcome)

RuntimeSpec == RuntimeInit /\ [][RuntimeNext]_vars
\* Settings constructed in any environment with any keyword arguments.
ConfigInit ==
  /\ AuthIdle /\ SessionIdle /\ StreamIdle /\ SetupIdle /\ RuntimeIdle
  /\ environ \in Environs
  /\ settings_ret = NoConstruction

ConfigNext == \E kwargs \in Kwargs : Settings_construct(kwargs)

ConfigSpec == ConfigInit /\ [][ConfigNext]_vars
\* ------------------------------------------------------------- properties
Contains(seq, x) == \E i \in 1..Len(seq) : seq[i] = x

\* A get_token call begins in this step.
CallBegins == calls' = calls + 1

\* The resolver's state as its fields give it.
ResolverState(tok, pend) ==
  IF Truthy(tok) THEN "Authenticated"
  ELSE IF pend # None THEN "AuthorizationPending"
  ELSE "Unauthenticated"

\* C1: with GITHUB_TOKEN configured, every AgentCoreGitHubAuth.get_token call
\* returns exactly the static token, in every state of the instance; the call
\* does not reach the provider, invokes no notifier and changes neither the
\* cached token nor the pending URL.
C1_StaticDominates ==
  [][(cls = "AgentCoreGitHubAuth" /\ CallBegins /\ Truthy(env))
       => /\ ret'.op = "get_token"
          /\ ret'.kind = "return"
          /\ ret'.value = env
          /\ ret'.contacts = 0
          /\ ret'.notified = <<>>
          /\ task' = task
          /\ cycle_notifications' = cycle_notifications
          /\ token' = token
          /\ pending_oauth_url' = pending_oauth_url]_vars

\* C1's case: the static token was returned while a different OAuth token was
\* cached and an authorization URL was still recorded.
C1_Witness ==
  /\ cls = "AgentCoreGitHubAuth"
  /\ ret.op = "get_token" /\ ret.kind = "return"
  /\ ret.pre_env = STATIC_TOKEN /\ ret.value = STATIC_TOKEN
  /\ ret.pre_token \in OAuthTokens /\ ret.post_token = ret.pre_token
  /\ ret.post_pending \in URLS
  /\ ret.contacts = 0

\* C2: a decorated operation is invoked exactly once with the static token
\* whenever one is configured, whatever access_token the caller gave (the
\* claim's second half, the pass-through of the caller's token when no static
\* token is configured, is not needed to decide it).
C2_StaticTokenPassed ==
  (wret.op = "wrapper" /\ SecretBool(wret.github_token))
    => /\ wret.invoked = 1
       /\ wret.passed = get_secret_value(wret.github_token)

\* C3: a get_token call answered "authorization required" with a URL stores
\* the URL as pending, invokes the (configured) notifier exactly once with it,
\* leaves the cached token as it was, and fails with an error whose content
\* includes the URL.
C3_AuthorizationRequired ==
  (/\ cls = "AgentCoreGitHubAuth"
   /\ oauth_url_callback # "none"
   /\ ret.op = "get_token" /\ ret.contacts > 0
   /\ ret.result.raises = None
   /\ ret.result.requiresAuthorization
   /\ ret.result.authorizationUrl # Missing)
    => /\ ret.post_pending = ret.result.authorizationUrl
       /\ ret.notified = <<ret.result.authorizationUrl>>
       /\ ret.post_token = ret.pre_token
       /\ ret.kind = "raise"
       /\ Contains(ret.exc.msg, ret.result.authorizationUrl)

\* C4: once an OAuth token is cached (and no static token is configured),
\* the token stays what it is and every later get_token call returns it
\* without a provider contact or a notifier invocation.
C4_CachedTokenReused ==
  [][/\ Truthy(token) => token' = token
     /\ (/\ CallBegins
         /\ Truthy(token)
         /\ (cls = "GitHubAuth" \/ ~Truthy(env)))
          => /\ ret'.op = "get_token"
             /\ ret'.kind = "return"
             /\ ret'.value = token
             /\ ret'.contacts = 0
             /\ ret'.notified = <<>>
             /\ task' = task
             /\ cycle_notifications' = cycle_notifications]_vars

\* C4's case: a call returned the cached token, no static token being set.
C4_Witness ==
  /\ ret.op = "get_token" /\ ret.kind = "return"
  /\ ret.pre_token \in OAuthTokens /\ ret.value = ret.pre_token
  /\ ~Truthy(ret.pre_env)
  /\ ret.contacts = 0
  /\ calls >= 2

\* C5: whenever the instance holds a cached token, its pending URL is null
\* (stated of AgentCoreGitHubAuth; GitHubAuth keeps the URL the same way).
C5_PendingClearedOnToken ==
  (cls = "AgentCoreGitHubAuth" /\ Truthy(token)) => pending_oauth_url = None

\* C6: within one authorization cycle the notifier is invoked exactly once,
\* however many get_token calls are made while authorization is pending
\* (stated of AgentCoreGitHubAuth with a notifier that returns).
C6_OneNotificationPerCycle ==
  (cls = "AgentCoreGitHubAuth" /\ oauth_url_callback = "ok")
    => cycle_notifications <= 1

\* C7: the state changes only along Unauthenticated -> AuthorizationPending,
\* AuthorizationPending -> AuthorizationPending, AuthorizationPending ->
\* Authenticated and Unauthenticated -> Authenticated.
C7_StateMachine ==
  [][LET from == ResolverState(token, pending_oauth_url)
         to == ResolverState(token', pending_oauth_url')
     IN \/ from = to
        \/ <<from, to>> \in {<<"Unauthenticated", "AuthorizationPending">>,
                             <<"AuthorizationPending", "Authenticated">>,
                             <<"Unauthenticated", "Authenticated">>}]_vars

\* C7's case: the instance went through AuthorizationPending and is
\* Authenticated, and a later call has returned the token.
C7_Witness ==
  /\ ResolverState(token, pending_oauth_url) = "Authenticated"
  /\ pending_oauth_url \in URLS
  /\ ret.op = "get_token" /\ ret.kind = "return" /\ ret.contacts = 0
  /\ ret.value = token

C9_NoTokenConfigurationError ==
  (/\ wret.op = "wrapper"
   /\ ~SecretBool(wret.github_token)
   /\ ~Truthy(wret.access_token))
    => /\ wret.kind = "raise"
       /\ wret.exc.type = "ValueError"
       /\ Contains(wret.exc.msg, "Either set GITHUB_TOKEN in .env ")
       /\ Contains(wret.exc.msg, "or use OAuth flow.")
       /\ wret.invoked = 0

\* C10: once the cached token is non-null, no later step of any get_token
\* call, in any interleaving, changes it (stated of AgentCoreGitHubAuth;
\* GitHubAuth overwrites the token the same way).
C10_TokenNeverMutated ==
  [][(cls = "AgentCoreGitHubAuth" /\ token # None) => token' = token]_vars

\* C11: nothing serialises the calls on one instance. With no static and no
\* cached token a call that begins goes on to the provider whatever other
\* calls are in flight, and every call answered "authorization required"
\* invokes the notifier, whether or not another call has done so since this
\* one began: two calls that overlap can leave two notifications for one flow.
C11_NoSingleFlightGuard ==
  [][/\ (/\ cls = "AgentCoreGitHubAuth"
          /\ CallBegins
          /\ ~Truthy(env) /\ ~Truthy(token) /\ CredentialProvider)
           => \E t \in Tasks : /\ task[t].pc = "idle"
                                /\ task'[t].pc = "awaiting"
                                /\ task'[t].contacts = 1
     /\ \A t \in Tasks :
          (/\ cls = "AgentCoreGitHubAuth"
           /\ oauth_url_callback # "none"
           /\ task[t].pc = "awaiting" /\ task'[t].pc = "idle"
           /\ ret'.result.raises = None
           /\ ret'.result.requiresAuthorization
           /\ ret'.result.authorizationUrl # Missing)
            => /\ ret'.contacts = 1
               /\ ret'.notified = <<ret'.result.authorizationUrl>>]_vars

\* C11's case: a call that began with no authorization pending found one
\* pending when the provider answered it, an overlapping call having notified
\* in between, and notified again: two notifications, no token obtained.
C11_Witness ==
  /\ cls = "AgentCoreGitHubAuth"
  /\ oauth_url_callback = "ok"
  /\ ret.op = "get_token" /\ ret.contacts = 1
  /\ ~ret.begin_pending
  /\ ret.pre_pending \in URLS
  /\ ret.notified # <<>>
  /\ cycle_notifications = 2
  /\ calls = 2

IsPrefix(a, b) == Len(a) <= Len(b) /\ SubSeq(b, 1, Len(a)) = a
LastN(seq, k) == SubSeq(seq, Len(seq) - k + 1, Len(seq))
Min(a, b) == IF a < b THEN a ELSE b
OtherSession(s) == CHOOSE o \in SessionIds : o # s

\* C12: whatever calls were made on whatever sessions, an unlimited read of a
\* session returns exactly the messages appended to it since its last clear,
\* in call order, and the previous unlimited read of the session since that
\* clear is a prefix of it.
C12_ReadReturnsAppended ==
  /\ \A s \in SessionIds :
       LET now == get_messages(sessions, s, NoLimit) IN
         /\ now.exc = NoExc
         /\ now.result = appended[s]
         /\ IsPrefix(last_read[s], now.result)
  /\ (sret.op = "get_messages" /\ sret.limit = NoLimit)
       => /\ sret.result = appended[sret.session_id]
          /\ IsPrefix(sret.earlier, sret.result)

\* C12's case: a read returned two messages of a session whose appends were
\* interleaved with an append to another session, the read before it having
\* returned one.
C12_Witness ==
  /\ sret.op = "get_messages" /\ sret.limit = NoLimit
  /\ Len(sret.result) = 2 /\ Len(sret.earlier) = 1
  /\ sret.result[1].message = 1 /\ sret.result[2].message = 3
  /\ dict_has(sessions, OtherSession(sret.session_id))

\* C13: a read with limit k >= 0 returns exactly the last min(k, n) messages
\* of the n the session holds, in their order.
C13_LimitReturnsSuffix ==
  (sret.op = "get_messages" /\ sret.limit # NoLimit /\ sret.limit[1] >= 0)
    => LET all == appended[sret.session_id] IN
         sret.result = LastN(all, Min(sret.limit[1], Len(all)))

\* C14: a read of a session that holds nothing (never appended to, or
\* cleared) returns the empty list for every limit, raises nothing and leaves
\* the store, and so the active sessions, as they were.
C14_UnknownSessionReadsEmpty ==
  /\ \A s \in SessionIds, k \in Limits :
       ~dict_has(sessions, s)
         => LET out == get_messages(sessions, s, k) IN
              /\ out.result = <<>>
              /\ out.exc = NoExc
              /\ out.sessions = sessions
              /\ get_active_sessions(out.sessions) = get_active_sessions(sessions)
  /\ (sret.op = "get_messages" /\ ~sret.present)
       => /\ sret.result = <<>>
          /\ sret.exc = NoExc
          /\ ~dict_has(sessions, sret.session_id)

\* C14's case: a limited read of a session that was appended to and cleared,
\* while the other session holds a message.
C14_Witness ==
  /\ sret.op = "get_messages" /\ ~sret.present
  /\ sret.limit = Limit(2)
  /\ adds = 2
  /\ Len(dict_get(sessions, OtherSession(sret.session_id), <<>>)) = 1

\* C15: after clear_session(s) a read of s is empty; clearing an absent
\* session raises nothing and leaves the store as it is; clearing twice
\* leaves the store that clearing once leaves.
C15_ClearIdempotent ==
  /\ \A s \in SessionIds :
       LET once == clear_session(sessions, s)
           twice == clear_session(once.sessions, s)
       IN /\ once.exc = NoExc /\ twice.exc = NoExc
          /\ get_messages(once.sessions, s, NoLimit).result = <<>>
          /\ twice.sessions = once.sessions
          /\ ~dict_has(sessions, s) => once.sessions = sessions
  /\ sret.op = "clear_session"
       => /\ sret.exc = NoExc
          /\ get_messages(sessions, sret.session_id, NoLimit).result = <<>>

\* C15's case: a session that was appended to and cleared is cleared again,
\* while the other session holds a message.
C15_Witness ==
  /\ sret.op = "clear_session" /\ ~sret.present
  /\ adds = 2
  /\ Len(dict_get(sessions, OtherSession(sret.session_id), <<>>)) = 1

\* C16: get_active_sessions returns, each once, exactly the ids of the
\* sessions that hold at least one message.
C16_ActiveSessionsHoldMessages ==
  LET ids == get_active_sessions(sessions) IN
    /\ \A i, j \in 1..Len(ids) : ids[i] = ids[j] => i = j
    /\ \A i \in 1..Len(ids) : dict_get(sessions, ids[i], <<>>) # <<>>
    /\ {ids[i] : i \in 1..Len(ids)} = {s \in SessionIds : appended[s] # <<>>}
    /\ sret.op = "get_active_sessions" => sret.result = ids

\* C16's case: the active sessions were asked for after one of two sessions
\* that held messages was cleared.
C16_Witness ==
  /\ sret.op = "get_active_sessions"
  /\ Len(sret.result) = 1
  /\ adds = 2
  /\ Len(dict_get(sessions, sret.result[1], <<>>)) = 1

\* C17: add_message for a session and clear_session of a session leave every
\* other session as it was: present or absent, and with the same messages.
C17_SessionsIndependent ==
  [][sret'.op \in {"add_message", "clear_session"}
       => \A o \in SessionIds \ {sret'.session_id} :
            /\ dict_has(sessions', o) = dict_has(sessions, o)
            /\ dict_get(sessions', o, <<>>) = dict_get(sessions, o, <<>>)]_vars

\* C17's case: a session that held a message was cleared while the other
\* held two.
C17_Witness ==
  /\ sret.op = "clear_session" /\ sret.present
  /\ Len(dict_get(sessions, OtherSession(sret.session_id), <<>>)) = 2

\* C18: a stream has exactly one terminal frame, its last: nothing follows an
\* error frame, and a done frame ends only a stream without an error frame.
C18_OneTerminalFrameLast ==
  /\ \A i \in 1..Len(frames) :
       frames[i].type \in TerminalTypes => i = Len(frames)
  /\ stream_pc = "closed"
       => /\ frames # <<>>
          /\ frames[Len(frames)].type \in TerminalTypes

\* C19: two runs that differ only in the text of an error event or of an
\* exception emit the same error frames.
C19_ErrorFrameGeneric ==
  \A i \in 1..Len(frames) :
    frames[i].type = "error"
      => /\ i <= Len(twin_frames)
         /\ twin_frames[i] = frames[i]

CallsOf(log, call) == {i \in 1..Len(log) : log[i].call = call}

\* C20: whatever providers the identity service holds, a run of the setup
\* routine that found its provider in the listing issues the delete before
\* the create, goes on when the delete finds nothing and, the client
\* credentials being configured, issues create exactly once and returns, its
\* provider then being in the service; so does every run that follows.
C20_SetupIdempotent ==
  /\ \A i \in CallsOf(api_calls, "delete") :
       /\ \A j \in CallsOf(api_calls, "create") : i < j
       /\ api_calls[i].error \in {None, "ResourceNotFoundException"}
  /\ (setup_pc = "create" /\ Len(api_calls) = 1)
       => github_provider_name \notin providers
  /\ (setup_pc = "idle" /\ setup_runs > 0 /\ client_config = Configured)
       => /\ Cardinality(CallsOf(api_calls, "create")) = 1
          /\ setup_ret.kind = "return"
          /\ setup_ret.value = PROVIDER_ARN
          /\ github_provider_name \in providers

\* C20's case: the routine has run a second time and deleted the provider its
\* first run created.
C20_Witness ==
  /\ client_config = Configured
  /\ setup_pc = "idle" /\ setup_runs = 2
  /\ setup_ret.kind = "return"
  /\ api_calls = <<ApiCall("list", None), ApiCall("delete", None),
                   ApiCall("create", None)>>

\* C26: in every state and for every value of GITHUB_TOKEN (unset, empty,
\* non-empty), is_authenticated() is true exactly when a get_token call made
\* in that state returns a credential without contacting the identity
\* provider (stated of AgentCoreGitHubAuth).
C26_AuthenticatedIffTokenAtHand ==
  cls = "AgentCoreGitHubAuth"
    => (AgentCore_is_authenticated(env, token)
          <=> get_token_before_provider(env, token, CredentialProvider).kind = "return")

\* C27: whenever get_token returns normally the value is a non-null, non-empty
\* token, and in the state it leaves is_authenticated() is true and a further
\* get_token returns the same value without contacting the provider (stated
\* of AgentCoreGitHubAuth).
C27_ReturnedTokenUsable ==
  (/\ cls = "AgentCoreGitHubAuth"
   /\ ret.op = "get_token" /\ ret.kind = "return"
   /\ env = ret.pre_env /\ token = ret.post_token)
    => /\ Truthy(ret.value)
       /\ AgentCore_is_authenticated(env, token)
       /\ LET again == get_token_before_provider(env, token, CredentialProvider) IN
            again.kind = "return" /\ again.value = ret.value

\* C28: when the notifier raises, the pending URL is recorded all the same and
\* the call fails with the authorization-pending error that contains the URL,
\* not with the callback's error (stated of AgentCoreGitHubAuth).
C28_NotifierErrorIgnored ==
  (/\ cls = "AgentCoreGitHubAuth"
   /\ oauth_url_callback = "raises"
   /\ ret.op = "get_token" /\ ret.notified # <<>>)
    => /\ ret.post_pending = ret.notified[1]
       /\ ret.kind = "raise"
       /\ Contains(ret.exc.msg, "User authorization required: ")
       /\ Contains(ret.exc.msg, ret.notified[1])
       /\ ~Contains(ret.exc.msg, CALLBACK_ERROR)

\* C21: every successful run of the setup routine returns a payload with the
\* provider ARN, the callback URL and the secret reference.
C21_PayloadComplete ==
  (setup_ret.op = "create_github_oauth_provider" /\ setup_ret.kind = "return")
    => {"credentialProviderArn", "callbackUrl", "clientSecretArn"}
         \subseteq setup_ret.payload

\* C29: a run of the setup routine that ends in failure has not deleted the
\* provider without replacing it: if it deleted one, the service holds one.
C29_FailureKeepsProvider ==
  (setup_pc = "idle" /\ setup_ret.kind = "raise")
    => ((\E i \in CallsOf(api_calls, "delete") : api_calls[i].error = None)
          => github_provider_name \in providers)

\* The frame of one agent event, as a sequence of no or one frame: none for
\* an object that is not a dict; for a dict the token frame with 'data',
\* otherwise the tool_use frame with 'current_tool_use', otherwise the error
\* frame with 'error', otherwise none.
FramesOfEvent(event) ==
  IF event.kind # "dict" THEN <<>>
  ELSE IF event.data # Missing THEN <<token_frame(event.data)>>
  ELSE IF event.current_tool_use # Missing
  THEN <<tool_use_frame(event.current_tool_use)>>
  ELSE IF event.error # Missing THEN <<error_frame(event.error)>>
  ELSE <<>>

RECURSIVE FramesOfEvents(_)
FramesOfEvents(evs) ==
  IF evs = <<>> THEN <<>>
  ELSE FramesOfEvent(Head(evs)) \o FramesOfEvents(Tail(evs))

IsErrorEvent(event) ==
  FramesOfEvent(event) # <<>> /\ FramesOfEvent(event)[1].type = "error"

\* C24: when the agent's iterator raises, before the first event or after
\* any number of them, the generator has yielded the frames of the events
\* before, then one error frame, no done frame, and has returned without
\* raising.
C24_ExceptionEndsWithErrorFrame ==
  (events # <<>> /\ events[Len(events)].kind = "raise")
    => /\ stream_pc = "closed"
       /\ frames = FramesOfEvents(SubSeq(events, 1, Len(events) - 1))
                     \o <<error_frame(events[Len(events)].error)>>
       /\ \A i \in 1..Len(frames) : frames[i].type # "done"
       /\ Cardinality({i \in 1..Len(frames) : frames[i].type = "error"}) = 1

\* C24's case: the iterator raised after two events that each had a frame.
C24_Witness ==
  /\ Len(events) = 3 /\ events[3].kind = "raise"
  /\ Len(frames) = 3 /\ frames[3].type = "error"
  /\ stream_pc = "closed"

\* C25: the frames are those of the consumed events, one at most for each
\* and in their order, followed by nothing while the stream runs and by the
\* one closing frame when it has ended; an error event is the last event
\* that is consumed.
C25_OneFramePerEventInOrder ==
  /\ \A i \in 1..Len(events) :
       /\ Len(FramesOfEvent(events[i])) <= 1
       /\ IsErrorEvent(events[i]) => (i = Len(events) /\ stream_pc # "running")
  /\ IsPrefix(FramesOfEvents(events), frames)
  /\ Len(frames) = Len(FramesOfEvents(events))
                     + (IF stream_pc = "running" THEN 0 ELSE 1)

\* C25's case: a dict with both 'data' and 'error' gave a token frame and did
\* not end the stream, an object that is not a dict gave nothing, and a dict
\* with 'error' alone gave the error frame and ended the stream.
C25_Witness ==
  /\ Len(events) = 3
  /\ events[1].kind = "dict" /\ events[1].data # Missing /\ events[1].error # Missing
  /\ events[2].kind = "not_dict"
  /\ IsErrorEvent(events[3])
  /\ Len(frames) >= 2 /\ frames[1].type = "token" /\ frames[2].type = "error"
  /\ stream_pc = "closed"

\* C30: a call of list_github_issues that has a token and whose API calls
\* succeed returns, whatever the listing and the limit: at most limit
\* entries, none of them a pull request, in the listing's order, namely the
\* items of the first limit that are not pull requests.
C30_IssuesListed ==
  (/\ wret.op = "wrapper" /\ wret.func = "list_github_issues"
   /\ (SecretBool(wret.github_token) \/ Truthy(wret.access_token))
   /\ ~wret.api_fails)
    => /\ wret.kind = "return"
       /\ Len(wret.issues) <= wret.limit
       /\ \A i \in 1..Len(wret.issues) :
            /\ wret.issues[i] \in 1..Len(wret.listing)
            /\ wret.issues[i] <= wret.limit
            /\ ~wret.listing[wret.issues[i]].pull_request
            /\ \A j \in 1..(i - 1) : wret.issues[j] < wret.issues[i]
       /\ \A n \in 1..Len(wret.listing) :
            (n <= wret.limit /\ ~wret.listing[n].pull_request)
              => \E i \in 1..Len(wret.issues) : wret.issues[i] = n

\* C22: constructing Settings with neither client credential given, by
\* argument or by environment, fails with a validation error that names both
\* fields, and there is no instance.
C22_MissingCredentialsRejected ==
  (/\ settings_ret.op = "Settings"
   /\ settings_ret.kwargs.github_client_id = NotGiven
   /\ settings_ret.kwargs.github_client_secret = NotGiven
   /\ environ.GITHUB_CLIENT_ID = NotGiven
   /\ environ.GITHUB_CLIENT_SECRET = NotGiven)
    => /\ settings_ret.kind = "raise"
       /\ {"github_client_id", "github_client_secret"} \subseteq settings_ret.errors
       /\ settings_ret.instance = <<>>

\* C23: no agent is created before the first get_agent call; after a call
\* that returned, every later call returns the same instance without calling
\* create_coding_agent; a call in which the creation raised leaves the
\* instance unset, and the next call calls create_coding_agent again.
C23_AgentCreatedOnce ==
  /\ get_log = <<>> => (agent = NoAgent /\ creations = 0)
  /\ creations = Cardinality({i \in 1..Len(get_log) : get_log[i].created})
  /\ Cardinality({i \in 1..Len(get_log) :
                    get_log[i].created /\ get_log[i].kind = "return"}) <= 1
  /\ \A i \in 1..Len(get_log) :
       /\ get_log[i].kind = "return"
            => /\ get_log[i].value # NoAgent
               /\ \A j \in (i + 1)..Len(get_log) :
                    /\ get_log[j].kind = "return"
                    /\ get_log[j].value = get_log[i].value
                    /\ ~get_log[j].created
       /\ get_log[i].kind = "raise"
            => /\ get_log[i].agent_after = NoAgent
               /\ i < Len(get_log) => get_log[i + 1].created

\* C23's case: the creation failed in the first call and succeeded in the
\* second, and two more calls returned that instance.
C23_Witness ==
  /\ Len(get_log) = 4
  /\ get_log[1].kind = "raise"
  /\ get_log[2].kind = "return" /\ get_log[2].created
  /\ get_log[3].value = get_log[2].value /\ get_log[4].value = get_log[2].value
  /\ creations = 2
====
